---- MODULE Spec2Model ----
(***************************************************************************)
(* DevFlow (src/main.js): the persistent store `state`, the issue and todo *)
(* services, the theme manager, the time service and the GitHub import,    *)
(* as a state machine.  One action per entry point; an action is the whole *)
(* handler, the trailing state.notify() (listeners, then state.save())     *)
(* included.                                                               *)
(*                                                                         *)
(* Representation.  A JavaScript object is a function from its property    *)
(* names to values; a property that is absent (reads as undefined) is      *)
(* absent from the DOMAIN.  A string that the code inspects (title,        *)
(* description, filters.search) is a sequence of one-character strings.    *)
(* An instant (a Date) is a number of half-days; its date-string           *)
(* (toISOString().split('T')[0]) is DateStr(t).                            *)
(***************************************************************************)
EXTENDS Integers, Sequences, FiniteSets, TLC

VARIABLES
    pc,          \* "boot": script evaluated, DOMContentLoaded pending; "ready"
    data,        \* state.data, the Document
    listeners,   \* state.listeners
    storage,     \* the localStorage slot STORAGE_KEY
    bodyClass,   \* document.body's theme class
    clock,       \* the device clock (an instant)
    imports,     \* api.fetchGithubIssues calls in flight
    syncs,       \* api.fetchCurrentTime calls in flight
    faults,      \* history: uncaught exceptions since the page was loaded
    meanwhile,   \* history: the kinds of step that have changed the Document
                 \* while every import now in flight was in flight
    last         \* history: the operation that ran last and what it did

vars == <<pc, data, listeners, storage, bodyClass, clock, imports, syncs, faults,
          meanwhile, last>>

----------------------------------------------------------------------------
(* Bounds of the model *)

MaxIssues == 2       \* issues kept in the Document
MaxStored == 1       \* the same, where every operation of the program runs
MaxTodos == 1        \* todos kept in one bucket
MaxBucket == 2       \* the same, where the todo service runs alone
MaxBatch == 2        \* records in one GitHub response
MaxInFlight == 1     \* fetches of one kind in flight
MaxOverlap == 2      \* imports in flight, where imports overlap
MaxFaults == 1       \* uncaught exceptions the model follows a page through

Instants == {0, 1, 2}                   \* the instants of the clocks
IDS == {"id-a", "id-b"}                 \* outcomes of api.generateUUID

----------------------------------------------------------------------------
(* JavaScript helpers *)

\* { ...a, ...b }
Spread(a, b) ==
    [f \in (DOMAIN a) \cup (DOMAIN b) |-> IF f \in DOMAIN b THEN b[f] ELSE a[f]]

\* obj[key] = value
SetProp(obj, key, value) ==
    [f \in (DOMAIN obj) \cup {key} |-> IF f = key THEN value ELSE obj[f]]

Has(obj, key) == key \in DOMAIN obj

\* String.prototype.toLowerCase, on the characters the model uses
LowerChar(c) ==
    CASE c = "A" -> "a"
      [] c = "B" -> "b"
      [] c = "C" -> "c"
      [] OTHER -> c

toLowerCase(s) == [i \in 1..Len(s) |-> LowerChar(s[i])]

\* String.prototype.includes
includes(hay, needle) ==
    \E i \in 0..(Len(hay) - Len(needle)) :
        SubSeq(hay, i + 1, i + Len(needle)) = needle

\* Date.prototype.toISOString().split('T')[0]: two instants a day
DateStr(t) == t \div 2

\* seq.findIndex(x => x.id === id), seq.find(x => x.id === id): the first
\* match (0 for -1, for undefined)
FindIndexById(seq, id) ==
    IF \E i \in 1..Len(seq) : seq[i].id = id
    THEN CHOOSE i \in 1..Len(seq) :
             seq[i].id = id /\ \A j \in 1..(i - 1) : seq[j].id # id
    ELSE 0

\* seq.filter(x => x.id !== id)
FilterOutId(seq, id) ==
    LET Keep(x) == x.id # id IN SelectSeq(seq, Keep)

----------------------------------------------------------------------------
(* The store *)

initialState(today) ==
    [issues |-> << >>,
     todos |-> << >>,
     theme |-> "light",
     currentDate |-> today,
     filters |-> [priority |-> "all", search |-> << >>]]

\* The slot: no item, the empty text, or a text that JSON.parse rejects or
\* turns into a value.  The value null spreads like the empty object << >>.
Absent == [kind |-> "absent"]
EmptyText == [kind |-> "empty"]
Garbage == [kind |-> "text", parses |-> FALSE]
JSONstringify(v) == [kind |-> "text", parses |-> TRUE, value |-> v]

\* state.init, up to its final save: the Document it leaves
stateInit(stored, initial) ==
    IF stored.kind \in {"absent", "empty"}       \* if (stored) is false
    THEN initial
    ELSE IF stored.parses
         THEN Spread(initial, stored.value)
         ELSE initial

----------------------------------------------------------------------------
(* issueService.getFilteredIssues *)

\* a priority read for ===: an absent property reads as undefined
PriorityOf(obj) == IF Has(obj, "priority") THEN obj.priority ELSE "undefined"

matchesPriority(issue, filters) ==
    PriorityOf(filters) = "all" \/ PriorityOf(issue) = PriorityOf(filters)

searchIsEmpty(filters) == Has(filters, "search") /\ filters.search = << >>

\* the filter callback throws a TypeError: toLowerCase of undefined
callbackThrows(issue, filters) ==
    /\ ~searchIsEmpty(filters)
    /\ \/ ~Has(issue, "title")
       \/ ~Has(filters, "search")
       \/ /\ ~includes(toLowerCase(issue.title), toLowerCase(filters.search))
          /\ ~Has(issue, "description")

\* the callback's result, when it does not throw
matchesSearch(issue, filters) ==
    \/ searchIsEmpty(filters)
    \/ includes(toLowerCase(issue.title), toLowerCase(filters.search))
    \/ includes(toLowerCase(issue.description), toLowerCase(filters.search))

callbackKeeps(issue, filters) ==
    matchesPriority(issue, filters) /\ matchesSearch(issue, filters)

\* [threw, value]: the call throws, or returns value
getFilteredIssues(d) ==
    IF \E i \in 1..Len(d.issues) : callbackThrows(d.issues[i], d.filters)
    THEN [threw |-> TRUE]
    ELSE [threw |-> FALSE,
          value |-> LET Keep(issue) == callbackKeeps(issue, d.filters)
                    IN  SelectSeq(d.issues, Keep)]

----------------------------------------------------------------------------
(* Listeners and state.notify *)

\* ui.render(data) throws when getFilteredIssues does (renderDashboard)
renderThrows(d) == getFilteredIssues(d).threw

\* themeManager.applyTheme
applyTheme(themeName) == IF themeName = "dark" THEN "dark-theme" ELSE "light-theme"

\* the listener themeManager.init subscribes: the body class it leaves
themeListener(d, cls) ==
    IF cls = "dark-theme" /\ d.theme = "light" THEN applyTheme("light")
    ELSE IF cls # "dark-theme" /\ d.theme = "dark" THEN applyTheme("dark")
    ELSE cls

\* The events of one operation, in order: state.notify entered, a listener
\* called with a Document (and whether it threw), the slot written with a text.
NotifyEvent == [ev |-> "notify"]
CallEvent(i, d, threw) == [ev |-> "call", listener |-> i, doc |-> d, threw |-> threw]
SaveEvent(text) == [ev |-> "save", text |-> text]

\* What an operation works on: the store, the slot, the page, and the events
\* and the exception of the operation so far.
World(d, ls, cls, slot) ==
    [data |-> d, listeners |-> ls, bodyClass |-> cls, storage |-> slot,
     log |-> << >>, threw |-> FALSE]

\* state.save
save(w) ==
    [w EXCEPT !.storage = JSONstringify(w.data),
              !.log = Append(@, SaveEvent(JSONstringify(w.data)))]

\* one listener called with this.data
callListener(w, i) ==
    IF w.listeners[i] = "theme"
    THEN [w EXCEPT !.log = Append(@, CallEvent(i, w.data, FALSE)),
                   !.bodyClass = themeListener(w.data, @)]
    ELSE [w EXCEPT !.log = Append(@, CallEvent(i, w.data, renderThrows(w.data))),
                   !.threw = renderThrows(w.data)]

\* this.listeners.forEach(listener => listener(this.data)), from index i on:
\* an exception ends the loop
RECURSIVE forEachListener(_, _)
forEachListener(w, i) ==
    IF i > Len(w.listeners) \/ w.threw
    THEN w
    ELSE forEachListener(callListener(w, i), i + 1)

\* state.notify with the two statements in the other order
notifySaveFirst(w) ==
    forEachListener(save([w EXCEPT !.log = Append(@, NotifyEvent)]), 1)

\* state.notify: the listeners, then save, unless a listener threw
notify(w) ==
    LET r == forEachListener([w EXCEPT !.log = Append(@, NotifyEvent)], 1)
    IN  IF r.threw THEN r ELSE save(r)

\* state.subscribe
subscribe(w, listener) == [w EXCEPT !.listeners = Append(@, listener)]

----------------------------------------------------------------------------
(* issueService *)

HasId(seq, id) == \E i \in 1..Len(seq) : seq[i].id = id

addIssue(w, issueData, uuid, now) ==
    LET newIssue == Spread([id |-> uuid, createdAt |-> DateStr(now)], issueData)
    IN  notify([w EXCEPT !.data.issues = Append(@, newIssue)])

\* updateIssue calling state.notify outside its if
updateIssueAlways(w, id, updates) ==
    LET index == FindIndexById(w.data.issues, id)
    IN  notify(IF index # 0
               THEN [w EXCEPT !.data.issues[index] = Spread(@, updates)]
               ELSE w)

updateIssue(w, id, updates) ==
    LET index == FindIndexById(w.data.issues, id)
    IN  IF index # 0
        THEN notify([w EXCEPT !.data.issues[index] = Spread(@, updates)])
        ELSE w

deleteIssue(w, id) ==
    notify([w EXCEPT !.data.issues = FilterOutId(@, id)])

\* importIssues assigning the batch alone: what was in issues is dropped
importIssuesReplace(w, newIssues) ==
    notify([w EXCEPT !.data.issues = newIssues])

\* importIssues spreading the batch first
importIssuesFirst(w, newIssues) ==
    notify([w EXCEPT !.data.issues = newIssues \o @])

importIssues(w, newIssues) ==
    notify([w EXCEPT !.data.issues = @ \o newIssues])

setFilter(w, filterType, value) ==
    notify([w EXCEPT !.data.filters = SetProp(@, filterType, value)])

----------------------------------------------------------------------------
(* todoService *)

\* addTodo filing the todo under the Document's currentDate, whatever its date
addTodoToday(w, text, date, uuid) ==
    LET today == w.data.currentDate
        todos == IF Has(w.data.todos, today)
                 THEN w.data.todos
                 ELSE SetProp(w.data.todos, today, << >>)
        newTodo == [id |-> uuid, text |-> text, completed |-> FALSE]
    IN  notify([w EXCEPT !.data.todos = SetProp(todos, today, Append(todos[today], newTodo))])

addTodo(w, text, date, uuid) ==
    LET todos == IF Has(w.data.todos, date)
                 THEN w.data.todos
                 ELSE SetProp(w.data.todos, date, << >>)
        newTodo == [id |-> uuid, text |-> text, completed |-> FALSE]
    IN  notify([w EXCEPT !.data.todos = SetProp(todos, date, Append(todos[date], newTodo))])

\* toggleTodo calling state.notify outside its if
toggleTodoAlways(w, id, date) ==
    LET index == IF Has(w.data.todos, date)
                 THEN FindIndexById(w.data.todos[date], id)
                 ELSE 0
    IN  notify(IF index # 0
               THEN [w EXCEPT !.data.todos[date][index].completed = ~@]
               ELSE w)

toggleTodo(w, id, date) ==
    LET index == IF Has(w.data.todos, date)
                 THEN FindIndexById(w.data.todos[date], id)
                 ELSE 0
    IN  IF index # 0
        THEN notify([w EXCEPT !.data.todos[date][index].completed = ~@])
        ELSE w

deleteTodo(w, id, date) ==
    IF ~Has(w.data.todos, date)
    THEN w
    ELSE notify([w EXCEPT !.data.todos[date] = FilterOutId(@, id)])

getTodosForDate(d, date) == IF Has(d.todos, date) THEN d.todos[date] ELSE << >>

----------------------------------------------------------------------------
(* themeManager, timeService *)

toggle(w) ==
    LET newTheme == IF w.data.theme = "light" THEN "dark" ELSE "light"
    IN  notify([w EXCEPT !.data.theme = newTheme])

\* new Date(undefined), new Date("garbage"): the Invalid Date
InvalidDate == -1

\* api.fetchCurrentTime: the Date it resolves with, by what the fetch did
fetchCurrentTime(outcome, now) ==
    CASE outcome.kind = "datetime" -> outcome.time       \* new Date(data.datetime)
      [] outcome.kind = "no datetime" -> InvalidDate      \* JSON without a usable datetime
      [] OTHER -> now                                     \* catch: new Date()

\* timeService.syncTime once api.fetchCurrentTime has resolved with serverTime;
\* toISOString of the Invalid Date throws a RangeError
syncTime(w, serverTime) ==
    IF serverTime = InvalidDate
    THEN [w EXCEPT !.threw = TRUE]
    ELSE IF w.data.currentDate # DateStr(serverTime)
         THEN notify([w EXCEPT !.data.currentDate = DateStr(serverTime)])
         ELSE w

----------------------------------------------------------------------------
(* api.fetchGithubIssues: the mapping of a response to issues *)

ghDescription(ghIssue) ==
    IF Has(ghIssue, "body") /\ ghIssue.body # << >> THEN ghIssue.body ELSE << >>

mapGithubIssues(response, uuids) ==
    [i \in 1..Len(response) |->
        [id |-> uuids[i],
         title |-> response[i].title,
         description |-> ghDescription(response[i]),
         priority |-> "medium",
         status |-> "open",
         dueDate |-> << >>,
         sourceUrl |-> response[i].html_url]]

----------------------------------------------------------------------------
(* Startup: the DOMContentLoaded handler up to its await *)

\* state.init
init(w, initial) == save([w EXCEPT !.data = stateInit(w.storage, initial)])

\* state.init(); ui.init(); themeManager.init(); state.subscribe(ui.render)
domContentLoaded(w, initial) ==
    LET w1 == init(w, initial)
    IN  IF renderThrows(w1.data)
        THEN [w1 EXCEPT !.threw = TRUE]
        ELSE subscribe(subscribe([w1 EXCEPT !.bodyClass = applyTheme(w1.data.theme)],
                                 "theme"),
                       "render")

----------------------------------------------------------------------------
(* Inputs *)

Dates == {DateStr(t) : t \in Instants}

\* the issue form: all five fields
FormData(titles, descriptions, priorities, statuses) ==
    [title : titles, description : descriptions, priority : priorities,
     status : statuses, dueDate : {<< >>}]

\* addIssue({title, priority, status}): description and dueDate not supplied
ShortData(titles, priorities) ==
    [title : titles, priority : priorities, status : {"open"}]

\* the status buttons and the drop on a column
StatusData(statuses) == [status : statuses]

SeqsUpTo(S, n) == UNION {[1..k -> S] : k \in 0..n}

GhPlain == [title |-> <<"A", "b">>, html_url |-> "https://github.com/o/r/issues/1"]
GhWithBody ==
    [title |-> <<"c">>, body |-> <<"a">>, html_url |-> "https://github.com/o/r/issues/2"]

\* what the slot may hold when the page is first opened
StoredSamples ==
    {Absent, EmptyText, Garbage,
     JSONstringify(<< >>),
     JSONstringify([theme |-> "dark"]),
     JSONstringify([filters |-> [priority |-> "low"]])}

----------------------------------------------------------------------------
(* The state machine *)

Here == World(data, listeners, bodyClass, storage)

Idle(op) == [call |-> [op |-> op], log |-> << >>, threw |-> FALSE]

\* the operation `call` has run and left w
Commit(call, w) ==
    /\ data' = w.data
    /\ listeners' = w.listeners
    /\ bodyClass' = w.bodyClass
    /\ storage' = w.storage
    /\ faults' = IF w.threw THEN faults + 1 ELSE faults
    /\ last' = [call |-> call, log |-> w.log, threw |-> w.threw]

\* the script has been evaluated, the page not yet loaded
Boot(slots) ==
    /\ pc = "boot"
    /\ clock = 0
    /\ data = initialState(DateStr(clock))
    /\ listeners = << >>
    /\ storage \in slots
    /\ bodyClass = "none"
    /\ imports = 0
    /\ syncs = 0
    /\ faults = 0
    /\ meanwhile = {}
    /\ last = Idle("script")

DOMContentLoaded ==
    /\ pc = "boot"
    /\ pc' = "ready"
    /\ LET w == domContentLoaded(Here, data)
       IN  /\ Commit([op |-> "init", stored |-> storage, initial |-> data], w)
           /\ syncs' = IF w.threw THEN 0 ELSE 1      \* await timeService.init()
    /\ UNCHANGED <<clock, imports, meanwhile>>

\* the page is closed and opened again: the script is evaluated anew
Reload ==
    /\ pc = "ready"
    /\ pc' = "boot"
    /\ data' = initialState(DateStr(clock))
    /\ listeners' = << >>
    /\ bodyClass' = "none"
    /\ imports' = 0
    /\ syncs' = 0
    /\ faults' = 0
    /\ meanwhile' = {}
    /\ last' = Idle("script")
    /\ UNCHANGED <<storage, clock>>

Tick ==
    /\ clock + 1 \in Instants
    /\ clock' = clock + 1
    /\ UNCHANGED <<pc, data, listeners, storage, bodyClass, imports, syncs, faults,
                   meanwhile, last>>

\* the page is loaded and the model still follows it
Ready == pc = "ready" /\ faults < MaxFaults

\* meanwhile, once a step of this kind has left the Document d and n imports
\* in flight
Since(kind, d, n) ==
    IF n = 0 THEN {}
    ELSE IF d # data THEN meanwhile \cup {kind}
    ELSE meanwhile

Service(call, w) ==
    /\ Ready
    /\ Commit(call, w)
    /\ meanwhile' = Since("operation", w.data, imports)
    /\ UNCHANGED <<pc, clock, imports, syncs>>

AddIssue(inputs, uuids, max) ==
    /\ Len(data.issues) < max
    /\ \E issueData \in inputs, uuid \in uuids :
          Service([op |-> "addIssue", issueData |-> issueData, uuid |-> uuid],
                  addIssue(Here, issueData, uuid, clock))

UpdateIssue(inputs) ==
    \E id \in IDS, updates \in inputs :
        Service([op |-> "updateIssue", id |-> id, updates |-> updates],
                updateIssue(Here, id, updates))

DeleteIssue ==
    \E id \in IDS :
        Service([op |-> "deleteIssue", id |-> id], deleteIssue(Here, id))

SetFilter(priorities, searches) ==
    \/ \E value \in priorities :
          Service([op |-> "setFilter", filterType |-> "priority", value |-> value],
                  setFilter(Here, "priority", value))
    \/ \E value \in searches :
          Service([op |-> "setFilter", filterType |-> "search", value |-> value],
                  setFilter(Here, "search", value))

AddTodo(uuids, max) ==
    \E date \in Dates, uuid \in uuids :
        /\ Len(getTodosForDate(data, date)) < max
        /\ Service([op |-> "addTodo", date |-> date, uuid |-> uuid],
                   addTodo(Here, <<"t">>, date, uuid))

ToggleTodo ==
    \E id \in IDS, date \in Dates :
        Service([op |-> "toggleTodo", id |-> id, date |-> date],
                toggleTodo(Here, id, date))

DeleteTodo ==
    \E id \in IDS, date \in Dates :
        Service([op |-> "deleteTodo", id |-> id, date |-> date],
                deleteTodo(Here, id, date))

\* a read of one date's todos, as ui.renderTodos makes it
GetTodosForDate ==
    \E date \in Dates :
        Service([op |-> "getTodosForDate", date |-> date,
                 result |-> getTodosForDate(data, date)],
                Here)

ToggleTheme == Service([op |-> "toggle"], toggle(Here))

\* the github-form submit handler up to its await
GithubSubmit(max) ==
    /\ Ready
    /\ imports < max
    /\ imports' = imports + 1
    /\ meanwhile' = {}
    /\ last' = Idle("githubSubmit")
    /\ UNCHANGED <<pc, data, listeners, storage, bodyClass, clock, syncs, faults>>

\* the fetch resolved with a list of issues: the handler's continuation
GithubResolve(ghIssues, uuids, max) ==
    /\ Ready
    /\ imports > 0
    /\ imports' = imports - 1
    /\ \E response \in SeqsUpTo(ghIssues, MaxBatch) :
          /\ Len(data.issues) + Len(response) <= max
          /\ \E drawn \in [1..Len(response) -> uuids] :
                LET batch == mapGithubIssues(response, drawn)
                    w == importIssues(Here, batch)
                IN  /\ Commit([op |-> "importIssues", newIssues |-> batch,
                                meanwhile |-> meanwhile], w)
                    /\ meanwhile' = Since("import", w.data, imports - 1)
    /\ UNCHANGED <<pc, clock, syncs>>

\* the fetch failed or the response was not ok: alert(error.message)
GithubReject ==
    /\ Ready
    /\ imports > 0
    /\ imports' = imports - 1
    /\ meanwhile' = Since("reject", data, imports - 1)
    /\ last' = Idle("githubReject")
    /\ UNCHANGED <<pc, data, listeners, storage, bodyClass, clock, syncs, faults>>

\* the refresh-time button: timeService.syncTime up to its await
RefreshTime(max) ==
    /\ Ready
    /\ syncs < max
    /\ syncs' = syncs + 1
    /\ last' = Idle("refreshTime")
    /\ UNCHANGED <<pc, data, listeners, storage, bodyClass, clock, imports, faults,
                   meanwhile>>

TimeOutcomes ==
    {[kind |-> "datetime", time |-> t] : t \in Instants}
        \cup {[kind |-> "no datetime"], [kind |-> "network error"]}

\* api.fetchCurrentTime settled: the continuation of timeService.syncTime
SyncResolve ==
    /\ Ready
    /\ syncs > 0
    /\ syncs' = syncs - 1
    /\ \E outcome \in TimeOutcomes :
          LET serverTime == fetchCurrentTime(outcome, clock)
              w == syncTime(Here, serverTime)
          IN  /\ Commit([op |-> "syncTime", outcome |-> outcome,
                          serverTime |-> serverTime], w)
              /\ meanwhile' = Since("operation", w.data, imports)
    /\ UNCHANGED <<pc, clock, imports>>

----------------------------------------------------------------------------
(* Spec: the whole program, from any content of the slot, on few issue      *)
(* values                                                                   *)

Init == Boot(StoredSamples)

Next ==
    \/ DOMContentLoaded
    \/ Reload
    \/ AddIssue(FormData({<<"A", "b">>}, {<< >>}, {"low"}, {"open"})
                    \cup ShortData({<<"A", "b">>}, {"low"}),
                {"id-a"}, MaxStored)
    \/ UpdateIssue(StatusData({"resolved"}))
    \/ DeleteIssue
    \/ SetFilter({"all", "medium"}, {<< >>, <<"c">>})
    \/ AddTodo({"id-a"}, MaxTodos)
    \/ ToggleTodo
    \/ DeleteTodo
    \/ ToggleTheme
    \/ GithubSubmit(MaxInFlight)
    \/ GithubResolve({GhPlain}, {"id-a"}, MaxStored)
    \/ GithubReject
    \/ RefreshTime(MaxInFlight)
    \/ SyncResolve

Spec == Init /\ [][Next]_vars

----------------------------------------------------------------------------
(* SpecIssues: the issue service on a fresh slot, with the clock running    *)

InitIssues == Boot({Absent})

NextIssues ==
    \/ DOMContentLoaded
    \/ Tick
    \/ AddIssue(FormData({<<"A", "b">>, <<"c">>}, {<< >>, <<"a">>}, {"low"}, {"open"})
                    \cup ShortData({<<"A", "b">>}, {"low"}),
                IDS, MaxIssues)
    \/ UpdateIssue(FormData({<<"c">>}, {<<"a">>}, {"low"}, {"open", "resolved"})
                    \cup StatusData({"resolved"}))
    \/ DeleteIssue
    \/ GithubSubmit(MaxInFlight)
    \/ GithubResolve({GhPlain, GhWithBody}, IDS, MaxIssues)
    \/ GithubReject

SpecIssues == InitIssues /\ [][NextIssues]_vars

----------------------------------------------------------------------------
(* SpecFilter: the issue service under every filter setting                 *)

NextFilter ==
    \/ DOMContentLoaded
    \/ AddIssue(FormData({<<"A", "b">>, <<"c">>}, {<< >>, <<"a">>}, {"low", "high"}, {"open"})
                    \cup ShortData({<<"c">>}, {"low"}),
                IDS, MaxIssues)
    \/ DeleteIssue
    \/ SetFilter({"all", "low", "high"}, {<< >>, <<"a">>, <<"B">>})

SpecFilter == InitIssues /\ [][NextFilter]_vars

----------------------------------------------------------------------------
(* SpecOrder: the issue service and the import on few issue values, with a   *)
(* search that makes ui.render throw on an issue without description        *)

NextOrder ==
    \/ DOMContentLoaded
    \/ AddIssue(FormData({<<"A", "b">>}, {<< >>}, {"low"}, {"open"})
                    \cup ShortData({<<"A", "b">>}, {"low"}),
                IDS, MaxIssues)
    \/ UpdateIssue(StatusData({"resolved"}))
    \/ DeleteIssue
    \/ SetFilter({"all"}, {<< >>, <<"c">>})
    \/ GithubSubmit(MaxInFlight)
    \/ GithubResolve({GhPlain}, IDS, MaxIssues)
    \/ GithubReject

SpecOrder == InitIssues /\ [][NextOrder]_vars

----------------------------------------------------------------------------
(* SpecTodos: the todo service, and the issue service on one issue value    *)

NextTodos ==
    \/ DOMContentLoaded
    \/ AddIssue(ShortData({<<"A", "b">>}, {"low"}), IDS, MaxIssues)
    \/ DeleteIssue
    \/ AddTodo(IDS, MaxTodos)
    \/ ToggleTodo
    \/ DeleteTodo

SpecTodos == InitIssues /\ [][NextTodos]_vars

----------------------------------------------------------------------------
(* SpecBuckets: the todo service alone, on two dates and longer buckets      *)

NextBuckets ==
    \/ DOMContentLoaded
    \/ AddTodo(IDS, MaxBucket)
    \/ ToggleTodo
    \/ DeleteTodo
    \/ GetTodosForDate

SpecBuckets == InitIssues /\ [][NextBuckets]_vars

----------------------------------------------------------------------------
(* SpecAsync: imports that overlap one another, the time fetch, and issue    *)
(* and filter operations that run while they are in flight                  *)

NextAsync ==
    \/ DOMContentLoaded
    \/ AddIssue(FormData({<<"A", "b">>}, {<< >>}, {"low"}, {"open"}), {"id-a"}, MaxIssues)
    \/ UpdateIssue(StatusData({"resolved"}))
    \/ DeleteIssue
    \/ SetFilter({"all", "low"}, {<< >>})
    \/ GithubSubmit(MaxOverlap)
    \/ GithubResolve({GhPlain}, {"id-b"}, MaxIssues)
    \/ GithubReject
    \/ RefreshTime(MaxInFlight)
    \/ SyncResolve

SpecAsync == InitIssues /\ [][NextAsync]_vars

----------------------------------------------------------------------------
(* SpecTime: the time service, with the device clock running                *)

NextTime ==
    \/ DOMContentLoaded
    \/ Tick
    \/ ToggleTheme
    \/ AddTodo({"id-a"}, MaxTodos)
    \/ RefreshTime(MaxInFlight)
    \/ SyncResolve

SpecTime == InitIssues /\ [][NextTime]_vars

----------------------------------------------------------------------------
(* Properties *)

Events(kind) == LET Is(e) == e.ev = kind IN SelectSeq(last.log, Is)

\* C1: once state.init has run, between operations the slot holds the
\* serialization of the current Document.
C1_Persisted == pc = "ready" => storage = JSONstringify(data)

\* C2: every call of state.notify calls every registered listener exactly
\* once, in the order of subscription, each with the current Document, and
\* the slot is written only after the last listener.
C2_NotifyOrder ==
    \A p \in 1..Len(last.log) :
        last.log[p].ev = "notify" =>
            LET n == Len(listeners)
            IN  /\ p + n <= Len(last.log)
                /\ \A i \in 1..n :
                      /\ last.log[p + i].ev = "call"
                      /\ last.log[p + i].listener = i
                      /\ last.log[p + i].doc = data
                /\ Len(Events("call")) = n
                /\ \A q \in 1..Len(last.log) :
                      last.log[q].ev = "save" => q > p + n

\* a notify that reached two listeners and then wrote the slot
C2_Witness ==
    /\ Len(listeners) = 2
    /\ Len(data.issues) > 0
    /\ Len(last.log) = 4
    /\ last.log[1].ev = "notify"
    /\ last.log[4].ev = "save"

DocFields == {"issues", "todos", "theme", "currentDate", "filters"}

\* C3: whatever the slot holds, state.init leaves a Document with its five
\* fields and both filters, each field the slot's text lacks taken from the
\* canonical initial document, and ends by writing the Document to the slot.
C3_InitWellFormed ==
    last.call.op = "init" =>
        LET stored == last.call.stored
            initial == last.call.initial
            parsed == IF stored.kind = "text" /\ stored.parses
                      THEN stored.value ELSE << >>
        IN  /\ DocFields \subseteq DOMAIN data
            /\ {"priority", "search"} \subseteq DOMAIN data.filters
            /\ \A f \in DocFields \ DOMAIN parsed : data[f] = initial[f]
            /\ \A f \in DocFields \cap DOMAIN parsed : data[f] = parsed[f]
            /\ Has(parsed, "filters") =>
                  \A g \in {"priority", "search"} \ DOMAIN parsed.filters :
                      data.filters[g] = initial.filters[g]
            /\ Events("save") = <<SaveEvent(JSONstringify(data))>>
            /\ storage = JSONstringify(data)

\* the text contains the search text, case-insensitively
Contains(obj, field, search) ==
    Has(obj, field) /\ includes(toLowerCase(obj[field]), toLowerCase(search))

Selected(issue, filters) ==
    /\ filters.priority = "all" \/ PriorityOf(issue) = filters.priority
    /\ \/ filters.search = << >>
       \/ Contains(issue, "title", filters.search)
       \/ Contains(issue, "description", filters.search)

\* C4: for every reachable Document and filter setting getFilteredIssues
\* returns, in the order of issues, exactly the issues whose priority the
\* priority filter admits and whose title or description contains the search
\* text case-insensitively.
C4_FilterCorrect ==
    pc = "ready" =>
        LET result == getFilteredIssues(data)
            Keep(issue) == Selected(issue, data.filters)
        IN  /\ ~result.threw
            /\ result.value = SelectSeq(data.issues, Keep)

\* C5: the ids of the issues in the Document are pairwise distinct.
C5_IdsDistinct ==
    \A i, j \in 1..Len(data.issues) :
        i # j => data.issues[i].id # data.issues[j].id

\* the step is a call of op (last is rewritten by every call)
Called(op) == last'.call.op = op /\ last' # last

\* C6: updateIssue with an id that matches no issue changes nothing in the
\* Document, calls no listener and writes nothing to the slot.
C6_UpdateMiss ==
    [][(last'.call.op = "updateIssue" /\ ~HasId(data.issues, last'.call.id))
          => /\ data' = data
             /\ storage' = storage
             /\ last'.log = << >>]_vars

\* updateIssue missed in a Document that has issues and listeners
C6_Witness ==
    /\ last.call.op = "updateIssue"
    /\ last.call.id = "id-b"
    /\ Len(data.issues) > 0
    /\ ~HasId(data.issues, "id-b")
    /\ Len(listeners) = 2

HasTodo(d, id, date) == HasId(getTodosForDate(d, date), id)

\* the call is a lookup that finds nothing
Miss(call, d) ==
    \/ call.op = "deleteIssue" /\ ~HasId(d.issues, call.id)
    \/ call.op \in {"toggleTodo", "deleteTodo"} /\ ~HasTodo(d, call.id, call.date)

\* of the misses, those the code returns from before state.notify
QuietMiss(call, d) ==
    \/ call.op = "toggleTodo" /\ ~HasTodo(d, call.id, call.date)
    \/ call.op = "deleteTodo" /\ ~Has(d.todos, call.date)

\* C7 as stated: deleteIssue, toggleTodo and deleteTodo that find nothing
\* leave the Document unchanged, notify no listener and write nothing.
C7_SilentMisses ==
    [][Miss(last'.call, data)
          => /\ data' = data
             /\ storage' = storage
             /\ last'.log = << >>]_vars

\* C7 amended: every such miss leaves the Document unchanged; toggleTodo, and
\* deleteTodo on a date without a bucket, call no listener and write nothing;
\* deleteIssue, and deleteTodo on a date that has a bucket, still call
\* state.notify, which calls every listener with the unchanged Document.
C7_Misses ==
    [][Miss(last'.call, data)
          => /\ data' = data
             /\ IF QuietMiss(last'.call, data)
                THEN last'.log = << >> /\ storage' = storage
                ELSE /\ last'.log # << >>
                     /\ last'.log[1] = NotifyEvent
                     /\ \A i \in 1..Len(listeners) :
                           /\ last'.log[1 + i].ev = "call"
                           /\ last'.log[1 + i].doc = data]_vars

\* deleteIssue missed in a Document that has issues, and notified
C7_Witness ==
    /\ last.call.op = "deleteIssue"
    /\ last.call.id = "id-b"
    /\ Len(data.issues) > 0
    /\ ~HasId(data.issues, "id-b")
    /\ Len(Events("call")) = 2
    /\ Len(Events("save")) = 1

\* C8: every issue has its createdAt from its creation on, and no later
\* operation changes it.
C8_CreatedAtOnce ==
    [][/\ \A i \in 1..Len(data'.issues) : Has(data'.issues[i], "createdAt")
       /\ Called("updateIssue") =>
             \A i \in 1..Len(data.issues) :
                 Has(data.issues[i], "createdAt") =>
                     /\ Has(data'.issues[i], "createdAt")
                     /\ data'.issues[i].createdAt = data.issues[i].createdAt]_vars

IssueDefaults == [description |-> << >>]

\* C9: addIssue(fields) appends exactly one issue, whose id differs from
\* every id there was, whose createdAt is today's date-string, and whose
\* fields are those supplied, description being empty when not supplied.
C9_AddIssue ==
    [][Called("addIssue") =>
          LET n == Len(data'.issues)
              fields == last'.call.issueData
          IN  /\ n = Len(data.issues) + 1
              /\ SubSeq(data'.issues, 1, n - 1) = data.issues
              /\ ~HasId(data.issues, data'.issues[n].id)
              /\ Has(data'.issues[n], "createdAt")
              /\ data'.issues[n].createdAt = DateStr(clock)
              /\ \A f \in DOMAIN fields : data'.issues[n][f] = fields[f]
              /\ \A f \in DOMAIN IssueDefaults \ DOMAIN fields :
                    /\ Has(data'.issues[n], f)
                    /\ data'.issues[n][f] = IssueDefaults[f]]_vars

\* new is old with elements removed, the rest in their order
Thinned(new, old) ==
    \E kept \in SUBSET (1..Len(old)) :
        /\ Cardinality(kept) = Len(new)
        /\ \A j \in 1..Len(new) :
              \E i \in kept :
                  /\ Cardinality({k \in kept : k < i}) = j - 1
                  /\ new[j] = old[i]

\* C10: importIssues leaves the issues there were as a prefix and appends
\* the batch after them as received; addIssue appends; updateIssue keeps
\* every issue at its place; deleteIssue keeps the remaining issues in their
\* order; nothing else touches issues: issues stay in the order of creation.
C10_Order ==
    [][LET old == data.issues
           new == data'.issues
       IN  CASE Called("importIssues") -> new = old \o last'.call.newIssues
             [] Called("addIssue") ->
                    Len(new) = Len(old) + 1 /\ SubSeq(new, 1, Len(old)) = old
             [] Called("updateIssue") ->
                    /\ Len(new) = Len(old)
                    /\ \A i \in 1..Len(old) :
                          new[i] # old[i] =>
                              /\ old[i].id = last'.call.id
                              /\ \A j \in 1..(i - 1) : old[j].id # last'.call.id
                              /\ new[i].id = old[i].id
             [] Called("deleteIssue") -> Thinned(new, old)
             [] OTHER -> new = old]_vars

\* a batch of GitHub issues appended after an issue that was there
C10_Witness ==
    /\ last.call.op = "importIssues"
    /\ Len(last.call.newIssues) > 0
    /\ Len(data.issues) > Len(last.call.newIssues)
    /\ ~Has(data.issues[1], "sourceUrl")
    /\ Has(data.issues[Len(data.issues)], "sourceUrl")
    /\ data.issues[Len(data.issues)].id = last.call.newIssues[Len(last.call.newIssues)].id

TodoOps == {"addTodo", "toggleTodo", "deleteTodo", "getTodosForDate"}

\* the operations that read the Document from the slot or build it anew
LoadOps == {"script", "init"}

\* C11: addTodo, toggleTodo, deleteTodo and getTodosForDate called with a
\* date leave every other date's bucket as it was (no bucket created or
\* removed, same todos, same order, same completed flags); in the bucket of
\* their date addTodo appends the new todo, toggleTodo changes completed
\* flags only, deleteTodo only removes, and getTodosForDate changes nothing,
\* creates no bucket and returns the bucket or the empty sequence; no other
\* operation changes todos: a todo stays in the bucket it was created in.
C11_BucketsIsolated ==
    [][LET old == data.todos
           new == data'.todos
           call == last'.call
       IN  IF \E op \in TodoOps : Called(op)
           THEN LET d == call.date
                    was == getTodosForDate(data, d)
                IN  /\ \A e \in (DOMAIN old \cup DOMAIN new) \ {d} :
                          Has(old, e) /\ Has(new, e) /\ new[e] = old[e]
                    /\ Called("getTodosForDate") =>
                          /\ new = old
                          /\ call.result = IF Has(old, d) THEN old[d] ELSE << >>
                    /\ Called("addTodo") =>
                          /\ Has(new, d)
                          /\ new[d] = was \o <<[id |-> call.uuid, text |-> <<"t">>,
                                                 completed |-> FALSE]>>
                    /\ Called("toggleTodo") =>
                          /\ Has(new, d) = Has(old, d)
                          /\ Has(old, d) =>
                                /\ Len(new[d]) = Len(old[d])
                                /\ \A i \in 1..Len(old[d]) :
                                      /\ new[d][i].id = old[d][i].id
                                      /\ new[d][i].text = old[d][i].text
                    /\ Called("deleteTodo") =>
                          /\ Has(new, d) = Has(old, d)
                          /\ Has(old, d) => Thinned(new[d], old[d])
           ELSE last'.call.op \notin LoadOps => new = old]_vars

\* addTodo on one date next to a bucket of another date that holds two todos,
\* one of them completed
C11_Witness ==
    /\ last.call.op = "addTodo"
    /\ last.call.date = 1
    /\ Has(data.todos, 0)
    /\ Len(data.todos[0]) = 2
    /\ data.todos[0][1].completed
    /\ ~data.todos[0][2].completed
    /\ Len(data.todos[1]) = 2

\* the steps that start a fetch or drop its failure: the handler up to its
\* await, the handler's catch
Suspensions == {"githubSubmit", "githubReject", "refreshTime"}

\* C12: every step is one whole operation; starting a fetch, and a fetch that
\* fails, leave the Document and the slot as they are; when an import
\* resolves, whatever ran while it was in flight (other operations, other
\* imports), the Document is the Document of that moment with the batch
\* appended to issues, and when a time fetch resolves it is the Document of
\* that moment with at most currentDate replaced: nothing done in the
\* meantime is lost, and overlapping imports all end up in issues.
C12_AppliedAtCompletion ==
    [][/\ last'.call.op \in Suspensions => data' = data /\ storage' = storage
       /\ Called("importIssues") =>
             data' = [data EXCEPT !.issues = @ \o last'.call.newIssues]
       /\ Called("syncTime") =>
             IF last'.log = << >>
             THEN data' = data
             ELSE data' = [data EXCEPT !.currentDate = DateStr(last'.call.serverTime)]]_vars

\* an import has resolved after another import and another operation changed
\* the Document while it was in flight: both batches are in issues
C12_Witness ==
    /\ last.call.op = "importIssues"
    /\ last.call.meanwhile = {"operation", "import"}
    /\ Len(last.call.newIssues) = 1
    /\ Len(data.issues) = 2
    /\ Has(data.issues[1], "sourceUrl")
    /\ data.issues[2] = last.call.newIssues[1]
    /\ data.filters.priority = "low"

\* the time syncTime is to go by: the timestamp of the response, the device
\* clock when the fetch fails or the response carries no usable timestamp
TimeObtained(outcome, now) ==
    IF outcome.kind = "datetime" THEN outcome.time ELSE now

\* C13: whatever the clock fetch does (a timestamp, a network failure, a
\* response without a usable timestamp), syncTime throws nothing; afterwards
\* currentDate is the date-string of the time obtained (the device clock's on
\* a failure), state.notify has run if and only if that date-string differs
\* from the currentDate there was, and no other field of the Document has
\* changed.
C13_SyncTime ==
    [][Called("syncTime") =>
          LET dateStr == DateStr(TimeObtained(last'.call.outcome, clock))
          IN  /\ ~last'.threw
              /\ data' = [data EXCEPT !.currentDate = dateStr]
              /\ (last'.log # << >>) <=> (dateStr # data.currentDate)
              /\ last'.log # << >> => last'.log[1] = NotifyEvent]_vars

====
